---- MODULE Spec2Model ----
(***************************************************************************)
(* Model of the Local Gemini Agent (src/main.py): the response Normalizer   *)
(* _out_text, the error envelope _err, the request schemas and the five     *)
(* routes /health, /prompt, /chat, /stream and /versions.                   *)
(*                                                                          *)
(* Text is a sequence of one-character strings, so that strip, join and     *)
(* concatenation are computed and not assumed.  A Python value that may be  *)
(* None, a str or something else is a record [tag, s].                      *)
(***************************************************************************)
EXTENDS Integers, Sequences, FiniteSets, TLC

VARIABLES
    pc,        \* where the request in progress is
    endpoint,  \* the route of the request in progress
    body,      \* the JSON body as received
    req,       \* the body as parsed by the schema (PromptRequest / ChatRequest)
    sent,      \* the provider calls made for this request, in order
    outcome,   \* what the provider did: "none", "ok", "raised", "exhausted"
    resp,      \* the provider's response value
    out,       \* the Normalizer's result on resp
    detail,    \* str(e) of the exception the provider raised
    result,    \* the HTTP response
    received,  \* the chunks the provider's stream has yielded so far
    final,     \* event_gen's list of deltas
    events     \* the server-sent events emitted so far

vars == <<pc, endpoint, body, req, sent, outcome, resp, out, detail, result,
          received, final, events>>

(***************************************************************************)
(* Bounds of the model.                                                     *)
(***************************************************************************)
MaxCands == 2
MaxParts == 2
MaxChunks == 3
MaxPre == 2
MaxPost == 2

SeqsUpTo(S, n) == UNION {[1..k -> S] : k \in 0..n}

(***************************************************************************)
(* Python values.                                                           *)
(***************************************************************************)
None == [tag |-> "none", s |-> <<>>]
Num == [tag |-> "num", s |-> <<>>]
Str(t) == [tag |-> "str", s |-> t]

IsStr(v) == v.tag = "str"

\* Python truthiness of None, a str, or a non-zero number.
Truthy(v) ==
    CASE v.tag = "none" -> FALSE
      [] v.tag = "str" -> Len(v.s) > 0
      [] OTHER -> TRUE

\* v1 or v2
PyOr(v1, v2) == IF Truthy(v1) THEN v1 ELSE v2

IsSpace(c) == c \in {" ", "\n", "\t"}

RECURSIVE LStrip(_)
LStrip(t) ==
    IF t = <<>> THEN <<>>
    ELSE IF IsSpace(Head(t)) THEN LStrip(Tail(t)) ELSE t

RECURSIVE RStrip(_)
RStrip(t) ==
    IF t = <<>> THEN <<>>
    ELSE IF IsSpace(t[Len(t)]) THEN RStrip(SubSeq(t, 1, Len(t) - 1)) ELSE t

\* str.strip()
Strip(t) == RStrip(LStrip(t))

\* sep.join(texts)
RECURSIVE Join(_, _)
Join(texts, sep) ==
    IF texts = <<>> THEN <<>>
    ELSE IF Len(texts) = 1 THEN texts[1]
    ELSE texts[1] \o sep \o Join(Tail(texts), sep)

(***************************************************************************)
(* Response values.  Every node records how it is represented: "obj" has    *)
(* named attributes, "dict" is a key-value mapping.  A collection is None   *)
(* or a list.                                                               *)
(*   response: [style, text, output_text, candidates]                       *)
(*   candidates, parts: [tag, items]                                        *)
(*   candidate: [style, content]   content: [tag, style, parts]             *)
(*   part: [style, text]                                                    *)
(***************************************************************************)
NoColl == [tag |-> "none", items |-> <<>>]
List(items) == [tag |-> "list", items |-> items]
NoContent == [tag |-> "none", style |-> "obj", parts |-> NoColl]

\* bool(collection)
CollTruthy(c) == c.tag = "list" /\ Len(c.items) > 0

\* getattr(x, name, None): only an object has the attribute; a dict has none.
ObjAttr(x, v, none) == IF x.style = "obj" THEN v ELSE none

\* x.get(name) on a mapping
DictGet(x, v) == v

\* getattr(x, name, None) if not isinstance(x, dict) else x.get(name)
Access(x, v, none) == IF x.style # "dict" THEN ObjAttr(x, v, none) ELSE DictGet(x, v)

\* for p in parts: collect every text that is a non-empty str
RECURSIVE PartTexts(_)
PartTexts(items) ==
    IF items = <<>> THEN <<>>
    ELSE LET t == Access(Head(items), Head(items).text, None)
         IN (IF IsStr(t) /\ Len(t.s) > 0 THEN <<t.s>> ELSE <<>>)
            \o PartTexts(Tail(items))

\* The body of "for cand in candidates" for one candidate.
CandTexts(cand) ==
    LET content == Access(cand, cand.content, NoContent)
        parts == Access(content, content.parts, NoColl)
    IN IF content.tag = "none" THEN <<>>
       ELSE IF ~CollTruthy(parts) THEN <<>>
       ELSE PartTexts(parts.items)

\* for cand in candidates: texts grows by the candidate's texts
RECURSIVE WalkCands(_, _)
WalkCands(items, texts) ==
    IF items = <<>> THEN texts
    ELSE WalkCands(Tail(items), texts \o CandTexts(Head(items)))

\* candidates = getattr(resp, "candidates", None); if it is None and resp is a
\* dict, candidates = resp.get("candidates")
GetCandidates(r) ==
    LET a == ObjAttr(r, r.candidates, NoColl)
    IN IF a.tag = "none" /\ r.style = "dict" THEN DictGet(r, r.candidates) ELSE a

\* Step 1: the first of "text", "output_text" that is a str with val.strip().
ConvenienceText(r) ==
    LET t == ObjAttr(r, r.text, None)
        o == ObjAttr(r, r.output_text, None)
    IN IF IsStr(t) /\ Len(Strip(t.s)) > 0 THEN t
       ELSE IF IsStr(o) /\ Len(Strip(o.s)) > 0 THEN o
       ELSE None

Returned(t) == [tag |-> "ret", s |-> t]
Pending == [tag |-> "pending", s |-> <<>>]

\* _out_text(resp)
OutText(r) ==
    LET conv == ConvenienceText(r)
        candidates == GetCandidates(r)
    IN IF conv.tag = "str" THEN Returned(conv.s)
       ELSE IF ~CollTruthy(candidates) THEN Returned(<<>>)
       ELSE LET texts == WalkCands(candidates.items, <<>>)
            IN IF texts # <<>> THEN Returned(Join(texts, <<"\n">>))
               ELSE Returned(<<>>)

(***************************************************************************)
(* _err: the error envelope.  The error text is a sequence of characters;   *)
(* re.search(r"\{.*\}$", detail, re.S) and json.loads are computed on it.   *)
(* JSON values: [t, s, m] with t in "str", "null", "obj"; m is the sequence  *)
(* of members [k, v] of an object in source order (a later key wins).       *)
(***************************************************************************)
JNull == [t |-> "null", s |-> <<>>, m |-> <<>>]
JStr(chars) == [t |-> "str", s |-> chars, m |-> <<>>]
JObj(members) == [t |-> "obj", s |-> <<>>, m |-> members]

\* Indices of "{" in the text.
OpenBraces(text) == {i \in 1..Len(text) : text[i] = "{"}

\* Where the match must end: "$" matches at the very end of the text and
\* also just before a newline that ends it.  0 when no "}" stands there.
MatchEnd(text) ==
    LET n == Len(text)
    IN IF n >= 1 /\ text[n] = "}" THEN n
       ELSE IF n >= 2 /\ text[n] = "\n" /\ text[n - 1] = "}" THEN n - 1
       ELSE 0

\* re.search(r"\{.*\}$", detail, re.S): the leftmost "{" and, greedily, the
\* "}" at the end.  <<>> stands for no match (a match is never empty).
RegexSearch(text) ==
    LET j == MatchEnd(text)
        starts == {i \in OpenBraces(text) : i < j}
    IN IF starts = {} THEN <<>>
       ELSE LET i == CHOOSE a \in starts : \A b \in starts : a <= b
            IN SubSeq(text, i, j)

IsJsonSpace(c) == c \in {" ", "\n", "\t", "\r"}

RECURSIVE SkipWs(_, _)
SkipWs(text, i) ==
    IF i <= Len(text) /\ IsJsonSpace(text[i]) THEN SkipWs(text, i + 1) ELSE i

ParseFail == [ok |-> FALSE, val |-> JNull, pos |-> 0]
ParseOk(v, pos) == [ok |-> TRUE, val |-> v, pos |-> pos]

\* The index of the quote that closes a string opened just before i; 0 when
\* the string is unterminated or holds a control character or an escape.
RECURSIVE CloseQuote(_, _)
CloseQuote(text, i) ==
    IF i > Len(text) THEN 0
    ELSE IF text[i] = "\"" THEN i
    ELSE IF text[i] \in {"\n", "\t", "\r", "\\"} THEN 0
    ELSE CloseQuote(text, i + 1)

\* A string literal starting at the quote text[i].
ParseString(text, i) ==
    LET k == CloseQuote(text, i + 1)
    IN IF k = 0 THEN ParseFail ELSE ParseOk(JStr(SubSeq(text, i + 1, k - 1)), k + 1)

IsNullAt(text, i) ==
    /\ i + 3 <= Len(text)
    /\ SubSeq(text, i, i + 3) = <<"n", "u", "l", "l">>

RECURSIVE ParseValue(_, _)
RECURSIVE ParseMembers(_, _, _)

\* One JSON value starting at text[i] (whitespace already skipped).
ParseValue(text, i) ==
    IF i > Len(text) THEN ParseFail
    ELSE IF text[i] = "\"" THEN ParseString(text, i)
    ELSE IF IsNullAt(text, i) THEN ParseOk(JNull, i + 4)
    ELSE IF text[i] = "{" THEN
        LET k == SkipWs(text, i + 1)
        IN IF k <= Len(text) /\ text[k] = "}" THEN ParseOk(JObj(<<>>), k + 1)
           ELSE ParseMembers(text, k, <<>>)
    ELSE ParseFail

\* The members of an object from text[i] on: "key" : value, then "," or "}".
ParseMembers(text, i, acc) ==
    IF i > Len(text) \/ text[i] # "\"" THEN ParseFail
    ELSE LET key == ParseString(text, i)
         IN IF ~key.ok THEN ParseFail
            ELSE LET c == SkipWs(text, key.pos)
                 IN IF c > Len(text) \/ text[c] # ":" THEN ParseFail
                    ELSE LET v == ParseValue(text, SkipWs(text, c + 1))
                         IN IF ~v.ok THEN ParseFail
                            ELSE LET e == SkipWs(text, v.pos)
                                     members == Append(acc, [k |-> key.val.s, v |-> v.val])
                                 IN IF e > Len(text) THEN ParseFail
                                    ELSE IF text[e] = "}" THEN ParseOk(JObj(members), e + 1)
                                    ELSE IF text[e] = "," THEN
                                        ParseMembers(text, SkipWs(text, e + 1), members)
                                    ELSE ParseFail

\* json.loads(text): one value and nothing but whitespace around it.
JsonLoads(text) ==
    LET r == ParseValue(text, SkipWs(text, 1))
    IN IF r.ok /\ SkipWs(text, r.pos) > Len(text) THEN r ELSE ParseFail

ErrorKey == <<"e", "r", "r", "o", "r">>
MessageKey == <<"m", "e", "s", "s", "a", "g", "e">>

HasKey(obj, key) == \E i \in 1..Len(obj.m) : obj.m[i].k = key

\* dict[key] for a key that is present: the last member with that key.
Lookup(obj, key) ==
    LET idx == {i \in 1..Len(obj.m) : obj.m[i].k = key}
    IN obj.m[CHOOSE a \in idx : \A b \in idx : b <= a].v

\* bool(value) of a JSON value
JTruthy(v) ==
    CASE v.t = "null" -> FALSE
      [] v.t = "str" -> Len(v.s) > 0
      [] OTHER -> Len(v.m) > 0

\* The message of an envelope is the raw text or a value the provider gave.
RawMessage(text) == [kind |-> "raw", text |-> text, val |-> JNull]
ProviderMessage(v) == [kind |-> "provider", text |-> <<>>, val |-> v]

\* The try block of _err: provider_msg = j.get("error", {}).get("message"),
\* taken when truthy; any exception (no parse, "error" not a dict) keeps msg.
ErrMessage(text) ==
    LET m == RegexSearch(text)
    IN IF m = <<>> THEN RawMessage(text)
       ELSE LET j == JsonLoads(m)
            IN IF ~j.ok THEN RawMessage(text)
               ELSE LET e == IF HasKey(j.val, ErrorKey)
                             THEN Lookup(j.val, ErrorKey) ELSE JObj(<<>>)
                    IN IF e.t # "obj" THEN RawMessage(text)
                       ELSE IF ~HasKey(e, MessageKey) THEN RawMessage(text)
                       ELSE LET provider_msg == Lookup(e, MessageKey)
                            IN IF JTruthy(provider_msg) THEN ProviderMessage(provider_msg)
                               ELSE RawMessage(text)

GENERATION_ERROR == "GENERATION_ERROR"

\* _err(detail, code, status): raise HTTPException(status, {code, message})
Err(text, code, status) ==
    [status |-> status, code |-> code, message |-> ErrMessage(text)]

(***************************************************************************)
(* The error texts _err is checked on: a JSON text (or none) between a      *)
(* prefix and a suffix of at most MaxPre and MaxPost characters.            *)
(***************************************************************************)
Quote(t) == <<"\"">> \o t \o <<"\"">>
Member(k, v) == Quote(k) \o <<":">> \o v
Obj1(k, v) == <<"{">> \o Member(k, v) \o <<"}">>
Obj2(k1, v1, k2, v2) == <<"{">> \o Member(k1, v1) \o <<",">> \o Member(k2, v2) \o <<"}">>
QuotaText == Quote(<<"q">>)
EmptyText == Quote(<<>>)
NullText == <<"n", "u", "l", "l">>
EmptyObj == <<"{", "}">>
QuotaError == Obj1(ErrorKey, Obj1(MessageKey, QuotaText))

JsonTexts ==
    { <<>>, EmptyObj, QuotaError,
      Obj1(ErrorKey, QuotaText),
      Obj1(ErrorKey, NullText),
      Obj1(ErrorKey, EmptyObj),
      Obj1(ErrorKey, Obj1(MessageKey, EmptyText)),
      Obj1(ErrorKey, Obj1(MessageKey, NullText)),
      Obj1(ErrorKey, Obj1(MessageKey, EmptyObj)),
      Obj1(ErrorKey, Obj1(MessageKey, Obj1(MessageKey, QuotaText))),
      Obj1(MessageKey, QuotaText),
      Obj2(ErrorKey, Obj1(MessageKey, QuotaText), MessageKey, EmptyText),
      Obj2(ErrorKey, QuotaText, ErrorKey, Obj1(MessageKey, QuotaText)) }

PreChars == {"x", " ", "\n", "{", "}"}
PostChars == {"x", " ", "\n", "}"}

Details(npre, npost) ==
    {pre \o j \o post :
        pre \in SeqsUpTo(PreChars, npre), j \in JsonTexts,
        post \in SeqsUpTo(PostChars, npost)}

(***************************************************************************)
(* The response values the Normalizer is checked on: every logical value    *)
(* within the bounds, in each of the representations of its four levels.    *)
(***************************************************************************)
TopTextVals == {None, Num, Str(<<>>), Str(<<" ">>), Str(<<"a">>)}
OutputTextVals == {None, Str(<<"b">>)}
PartTextVals == {None, Str(<<>>), Str(<<" ">>), Str(<<"a">>), Str(<<"b">>)}

PartSet == {[style |-> "obj", text |-> t] : t \in PartTextVals}
PartsData(mp) == {NoColl} \cup {List(ps) : ps \in SeqsUpTo(PartSet, mp)}
ContentData(mp) ==
    {NoContent} \cup {[tag |-> "val", style |-> "obj", parts |-> p] : p \in PartsData(mp)}
CandSet(mp) == {[style |-> "obj", content |-> c] : c \in ContentData(mp)}
CandsData(mc, mp) ==
    {NoColl} \cup {List(cs) : cs \in SeqsUpTo(CandSet(mp), mc)}
Data(mc, mp) ==
    {[style |-> "obj", text |-> t, output_text |-> o, candidates |-> c] :
        t \in TopTextVals, o \in OutputTextVals, c \in CandsData(mc, mp)}

Levels == {"top", "cand", "content", "part"}
Styles == [Levels -> {"obj", "dict"}]

RestyleParts(parts, st) ==
    [parts EXCEPT !.items =
        [i \in 1..Len(parts.items) |-> [parts.items[i] EXCEPT !.style = st["part"]]]]

RestyleContent(c, st) ==
    IF c.tag = "none" THEN c
    ELSE [c EXCEPT !.style = st["content"], !.parts = RestyleParts(c.parts, st)]

RestyleCands(cands, st) ==
    [cands EXCEPT !.items =
        [i \in 1..Len(cands.items) |->
            [style |-> st["cand"],
             content |-> RestyleContent(cands.items[i].content, st)]]]

\* The same logical data with level l represented as st[l].
Restyle(r, st) ==
    [r EXCEPT !.style = st["top"], !.candidates = RestyleCands(r.candidates, st)]

AllObj == [l \in Levels |-> "obj"]
AllDict == [l \in Levels |-> "dict"]

\* Every value of at most mc candidates of at most mp parts each.
Responses(mc, mp) == {Restyle(d, st) : d \in Data(mc, mp), st \in Styles}


(***************************************************************************)
(* Schemas.  A numeric field of a body is absent, null or a number; the     *)
(* temperature is counted in tenths (0.3 is 3, 2.0 is 20).                  *)
(***************************************************************************)
AbsentN == [tag |-> "absent", n |-> 0]
NullN == [tag |-> "null", n |-> 0]
NoneN == [tag |-> "none", n |-> 0]
N(n) == [tag |-> "num", n |-> n]
Missing == [tag |-> "missing", s |-> <<>>]
NoMessages == [tag |-> "missing", items |-> <<>>]

FieldMaxOutputTokens == 1024
FieldTemperature == 3
MinOutputTokens == 1
MaxOutputTokens == 8192
MinTemperature == 0
MaxTemperature == 20
ChatMaxOutputTokens == 1024
ChatTemperature == 3
FallbackTemperature == 3
FallbackMaxOutputTokens == 1024
DEFAULT_MODEL == <<"gemini-2.5-flash">>

\* An Optional field with a default: absent takes the default, null is None.
FieldNum(v, default) ==
    IF v.tag = "absent" THEN N(default)
    ELSE IF v.tag = "null" THEN NoneN
    ELSE v

\* Field(..., ge=lo, le=hi) on an Optional number
InRange(v, lo, hi) == v.tag # "num" \/ (lo <= v.n /\ v.n <= hi)

NoBody ==
    [prompt |-> Missing, model |-> None, system |-> None,
     max_output_tokens |-> AbsentN, temperature |-> AbsentN,
     messages |-> NoMessages]

NoReq ==
    [prompt |-> Missing, model |-> None, system |-> None,
     max_output_tokens |-> NoneN, temperature |-> NoneN, messages |-> <<>>]

\* class PromptRequest(BaseModel)
PromptRequestValid(b) ==
    /\ IsStr(b.prompt)
    /\ InRange(b.max_output_tokens, MinOutputTokens, MaxOutputTokens)
    /\ InRange(b.temperature, MinTemperature, MaxTemperature)

PromptRequest(b) ==
    [prompt |-> b.prompt, model |-> b.model, system |-> b.system,
     max_output_tokens |-> FieldNum(b.max_output_tokens, FieldMaxOutputTokens),
     temperature |-> FieldNum(b.temperature, FieldTemperature),
     messages |-> <<>>]

\* class ChatMessage(BaseModel): role matches ^(user|model)$
ChatMessageValid(m) == m.role \in {"user", "model"}

\* class ChatRequest(BaseModel)
ChatRequestValid(b) ==
    /\ b.messages.tag = "list"
    /\ \A i \in 1..Len(b.messages.items) : ChatMessageValid(b.messages.items[i])

ChatRequest(b) ==
    [prompt |-> Missing, model |-> b.model, system |-> None,
     max_output_tokens |-> FieldNum(b.max_output_tokens, ChatMaxOutputTokens),
     temperature |-> FieldNum(b.temperature, ChatTemperature),
     messages |-> b.messages.items]

(***************************************************************************)
(* What the handlers build.                                                 *)
(***************************************************************************)
\* ResolveModel ignoring the request's override.
ResolveModelDefault(r) == DEFAULT_MODEL

\* req.model or DEFAULT_MODEL
ResolveModel(r) == PyOr(r.model, Str(DEFAULT_MODEL)).s

\* number or fallback: None and 0 are falsy
NumOr(v, fallback) == IF v.tag = "num" /\ v.n # 0 THEN v.n ELSE fallback

\* GenerateContentConfig(temperature=req.temperature or 0.3,
\*   max_output_tokens=req.max_output_tokens or 1024, ...)
GenerateContentConfig(r) ==
    [temperature |-> NumOr(r.temperature, FallbackTemperature),
     max_output_tokens |-> NumOr(r.max_output_tokens, FallbackMaxOutputTokens),
     response_modalities |-> <<"TEXT">>,
     thinking_budget |-> 0]

UserBlock(text) == [role |-> "user", text |-> text]

\* contents of /prompt and /stream: the system instruction, when truthy, as a
\* marked user message, then the prompt.
PromptContents(r) ==
    (IF Truthy(r.system)
     THEN <<UserBlock(<<"[System instruction]: ">> \o r.system.s)>> ELSE <<>>)
    \o <<UserBlock(r.prompt.s)>>

\* contents of /chat: one block per message, role kept.
ChatContents(r) ==
    [i \in 1..Len(r.messages) |->
        [role |-> r.messages[i].role, text |-> r.messages[i].content]]

Call(api, model, cts, config) ==
    [api |-> api, model |-> model, contents |-> cts, config |-> config]

NoResult ==
    [kind |-> "none", status |-> 0, model |-> <<>>, output |-> <<>>,
     code |-> "", message |-> RawMessage(<<>>)]

\* FastAPI's answer to a body the schema rejects
ValidationError == [NoResult EXCEPT !.kind = "validation", !.status = 422]

\* return {"model": model, "output": ...}
Success(model, output) ==
    [NoResult EXCEPT !.kind = "ok", !.status = 200, !.model = model, !.output = output]

\* the HTTPException raised by _err(str(e))
Failure(text) ==
    LET e == Err(text, GENERATION_ERROR, 500)
    IN [NoResult EXCEPT !.kind = "error", !.status = e.status, !.code = e.code,
                        !.message = e.message]

Static(kind) == [NoResult EXCEPT !.kind = kind, !.status = 200]

DeltaEvent(t) == [type |-> "delta", text |-> t]
FinalEvent(t) == [type |-> "final", text |-> t]
ErrorEvent(t) == [type |-> "error", text |-> t]

\* FinalText joining the deltas with newlines, as the Normalizer joins parts.
FinalTextLines(deltas) == Join(deltas, <<"\n">>)

\* ''.join(final)
FinalText(deltas) == Join(deltas, <<>>)

(***************************************************************************)
(* Inputs: request bodies, provider responses, error texts, chunks.         *)
(***************************************************************************)
Endpoints == {"health", "versions", "prompt", "chat", "stream"}

PromptVals == {Missing, Str(<<>>), Str(<<"p">>)}
ModelVals == {None, Str(<<>>), Str(<<"m">>)}
SystemVals == {None, Str(<<"s">>)}
TemperatureVals == {AbsentN, NullN, N(-1), N(0), N(7), N(20), N(21)}
TokenVals == {AbsentN, NullN, N(0), N(512), N(8193)}

UserMsg == [role |-> "user", content |-> <<"h", "i">>]
ModelMsg == [role |-> "model", content |-> <<"y", "o">>]
SystemMsg == [role |-> "system", content |-> <<"s">>]
MessageVals ==
    {NoMessages, List(<<>>), List(<<UserMsg>>), List(<<SystemMsg>>),
     List(<<UserMsg, ModelMsg>>)}

PromptBodies ==
    {[NoBody EXCEPT !.prompt = p, !.model = m, !.system = sy,
                    !.max_output_tokens = k, !.temperature = t] :
        p \in PromptVals, m \in ModelVals, sy \in SystemVals,
        k \in TokenVals, t \in TemperatureVals}

ChatBodies ==
    {[NoBody EXCEPT !.messages = ms, !.model = m,
                    !.max_output_tokens = k, !.temperature = t] :
        ms \in MessageVals, m \in ModelVals, k \in TokenVals,
        t \in TemperatureVals}

Bodies(e) ==
    CASE e \in {"prompt", "stream"} -> PromptBodies
      [] e = "chat" -> ChatBodies
      [] OTHER -> {NoBody}

TextPart(t) == [style |-> "obj", text |-> Str(t)]
CandOf(ps) ==
    [style |-> "obj",
     content |-> [tag |-> "val", style |-> "obj", parts |-> List(ps)]]

NoResp ==
    [style |-> "obj", text |-> None, output_text |-> None, candidates |-> NoColl]

\* The responses the provider returns to the handlers.
SdkData ==
    {[NoResp EXCEPT !.text = t, !.candidates = c] :
        t \in {None, Str(<<" ">>), Str(<<"a">>)},
        c \in {NoColl, List(<<>>),
               List(<<CandOf(<<TextPart(<<"a">>), TextPart(<<"b">>)>>)>>)}}

SdkResponses == {Restyle(d, st) : d \in SdkData, st \in {AllObj, AllDict}}

ErrTexts ==
    { <<"x">>, QuotaError, <<"x", " ">> \o QuotaError,
      <<"{", "x", "}", " ">> \o QuotaError, Obj1(ErrorKey, QuotaText) }

StreamErrTexts == { <<"x">>, QuotaError }

ChunkVals ==
    {None, Str(<<>>), Str(<<" ">>), Str(<<"H", "e", "l">>), Str(<<"l", "o">>)}

(***************************************************************************)
(* The routes.                                                              *)
(***************************************************************************)
Init ==
    /\ pc = "idle"
    /\ endpoint = "none"
    /\ body = NoBody
    /\ req = NoReq
    /\ sent = <<>>
    /\ outcome = "none"
    /\ resp = NoResp
    /\ out = Pending
    /\ detail = <<>>
    /\ result = NoResult
    /\ received = <<>>
    /\ final = <<>>
    /\ events = <<>>

\* A request arrives.
Receive ==
    /\ pc = "idle"
    /\ \E e \in Endpoints : \E b \in Bodies(e) :
        /\ endpoint' = e
        /\ body' = b
    /\ pc' = "received"
    /\ UNCHANGED <<req, sent, outcome, resp, out, detail, result, received,
                   final, events>>

\* The request is over; no state of it is kept for the next one.
Finish ==
    /\ pc \in {"done", "closed"}
    /\ pc' = "idle"
    /\ endpoint' = "none"
    /\ body' = NoBody
    /\ req' = NoReq
    /\ sent' = <<>>
    /\ outcome' = "none"
    /\ resp' = NoResp
    /\ out' = Pending
    /\ detail' = <<>>
    /\ result' = NoResult
    /\ received' = <<>>
    /\ final' = <<>>
    /\ events' = <<>>

SchemaValid(e, b) ==
    CASE e \in {"prompt", "stream"} -> PromptRequestValid(b)
      [] e = "chat" -> ChatRequestValid(b)
      [] OTHER -> TRUE

Parse(e, b) ==
    CASE e \in {"prompt", "stream"} -> PromptRequest(b)
      [] e = "chat" -> ChatRequest(b)
      [] OTHER -> NoReq

\* The body passes the route's schema and the handler is entered.
Accept ==
    /\ pc = "received"
    /\ SchemaValid(endpoint, body)
    /\ req' = Parse(endpoint, body)
    /\ pc' = "handler"
    /\ UNCHANGED <<endpoint, body, sent, outcome, resp, out, detail, result,
                   received, final, events>>

\* The body fails the route's schema: a client error, the handler never runs.
Reject ==
    /\ pc = "received"
    /\ ~SchemaValid(endpoint, body)
    /\ result' = ValidationError
    /\ pc' = "done"
    /\ UNCHANGED <<endpoint, body, req, sent, outcome, resp, out, detail,
                   received, final, events>>

\* def health()
health ==
    /\ pc = "handler"
    /\ endpoint = "health"
    /\ result' = Static("health")
    /\ pc' = "done"
    /\ UNCHANGED <<endpoint, body, req, sent, outcome, resp, out, detail,
                   received, final, events>>

\* def versions()
versions ==
    /\ pc = "handler"
    /\ endpoint = "versions"
    /\ result' = Static("versions")
    /\ pc' = "done"
    /\ UNCHANGED <<endpoint, body, req, sent, outcome, resp, out, detail,
                   received, final, events>>

\* Generate with one retry of a failed call.
GenerateRetry(model, cts, RespDom, ErrDom) ==
    LET call == Call("generate_content", model, cts, GenerateContentConfig(req))
    IN /\ \/ \E r \in RespDom :
               /\ sent' = Append(sent, call)
               /\ resp' = r
               /\ outcome' = "ok"
               /\ out' = OutText(r)
               /\ result' = Success(model, OutText(r).s)
               /\ UNCHANGED detail
          \/ \E d \in ErrDom :
               /\ sent' = Append(Append(sent, call), call)
               /\ outcome' = "raised"
               /\ detail' = d
               /\ result' = Failure(d)
               /\ UNCHANGED <<resp, out>>
       /\ pc' = "done"
       /\ UNCHANGED <<endpoint, body, req, received, final, events>>

\* The try block around one generate_content call with the call's arguments:
\* the provider returns a response of RespDom, which is normalized, or raises
\* with a text of ErrDom, which goes to _err.
Generate(model, cts, RespDom, ErrDom) ==
    /\ sent' = Append(sent, Call("generate_content", model, cts,
                                 GenerateContentConfig(req)))
    /\ \/ \E r \in RespDom :
            /\ resp' = r
            /\ outcome' = "ok"
            /\ out' = OutText(r)
            /\ result' = Success(model, OutText(r).s)
            /\ UNCHANGED detail
       \/ \E d \in ErrDom :
            /\ outcome' = "raised"
            /\ detail' = d
            /\ result' = Failure(d)
            /\ UNCHANGED <<resp, out>>
    /\ pc' = "done"
    /\ UNCHANGED <<endpoint, body, req, received, final, events>>

\* def prompt(req: PromptRequest)
PromptHandler(RespDom, ErrDom) ==
    /\ pc = "handler"
    /\ endpoint = "prompt"
    /\ Generate(ResolveModel(req), PromptContents(req), RespDom, ErrDom)

\* def chat(req: ChatRequest)
ChatHandler(RespDom, ErrDom) ==
    /\ pc = "handler"
    /\ endpoint = "chat"
    /\ Generate(ResolveModel(req), ChatContents(req), RespDom, ErrDom)

prompt == PromptHandler(SdkResponses, ErrTexts)

chat == ChatHandler(SdkResponses, ErrTexts)

\* def stream(req: PromptRequest): returns the StreamingResponse; event_gen
\* has not run yet.
stream ==
    /\ pc = "handler"
    /\ endpoint = "stream"
    /\ result' = Static("stream")
    /\ pc' = "stream_ready"
    /\ UNCHANGED <<endpoint, body, req, sent, outcome, resp, out, detail,
                   received, final, events>>

\* event_gen up to the for loop: final = [], the streaming call is opened; an
\* exception goes to the except clause, which yields the error event.
StreamOpen ==
    /\ pc = "stream_ready"
    /\ sent' = Append(sent, Call("generate_content_stream", ResolveModel(req),
                                 PromptContents(req), GenerateContentConfig(req)))
    /\ final' = <<>>
    /\ \/ /\ outcome' = "ok"
          /\ pc' = "iterating"
          /\ UNCHANGED <<detail, events>>
       \/ \E d \in StreamErrTexts :
            /\ outcome' = "raised"
            /\ detail' = d
            /\ events' = Append(events, ErrorEvent(d))
            /\ pc' = "done"
    /\ UNCHANGED <<endpoint, body, req, resp, out, result, received>>

\* One turn of "for chunk in stream_iter": a chunk with truthy text is
\* appended to final and yielded as a delta.
StreamChunk ==
    /\ pc = "iterating"
    /\ Len(received) < MaxChunks
    /\ \E chunk \in ChunkVals :
        /\ received' = Append(received, chunk)
        /\ IF Truthy(chunk)
           THEN /\ final' = Append(final, chunk.s)
                /\ events' = Append(events, DeltaEvent(chunk.s))
                /\ pc' = "yielded"
           ELSE UNCHANGED <<final, events, pc>>
    /\ UNCHANGED <<endpoint, body, req, sent, outcome, resp, out, detail, result>>

\* The consumer asks for the next event: the generator resumes after its yield.
StreamResume ==
    /\ pc = "yielded"
    /\ pc' = "iterating"
    /\ UNCHANGED <<endpoint, body, req, sent, outcome, resp, out, detail, result,
                   received, final, events>>

\* The provider's sequence is exhausted: the final event.
StreamExhausted ==
    /\ pc = "iterating"
    /\ events' = Append(events, FinalEvent(FinalText(final)))
    /\ outcome' = "exhausted"
    /\ pc' = "done"
    /\ UNCHANGED <<endpoint, body, req, sent, resp, out, detail, result,
                   received, final>>

\* StreamRaise with the final event still sent after the error event.
StreamRaiseThenFinal ==
    /\ pc = "iterating"
    /\ \E d \in StreamErrTexts :
        /\ detail' = d
        /\ events' = events \o <<ErrorEvent(d), FinalEvent(FinalText(final))>>
    /\ outcome' = "raised"
    /\ pc' = "done"
    /\ UNCHANGED <<endpoint, body, req, sent, resp, out, result, received, final>>

\* The provider raises while the loop asks for the next chunk.
StreamRaise ==
    /\ pc = "iterating"
    /\ \E d \in StreamErrTexts :
        /\ detail' = d
        /\ events' = Append(events, ErrorEvent(d))
    /\ outcome' = "raised"
    /\ pc' = "done"
    /\ UNCHANGED <<endpoint, body, req, sent, resp, out, result, received, final>>

\* The client goes away: the generator is closed where it is suspended (not
\* yet started, or at the yield of a delta); GeneratorExit is no Exception,
\* so the except clause does not run.
Disconnect ==
    /\ pc \in {"stream_ready", "yielded"}
    /\ pc' = "closed"
    /\ UNCHANGED <<endpoint, body, req, sent, outcome, resp, out, detail, result,
                   received, final, events>>

Next ==
    \/ Receive
    \/ Accept
    \/ Reject
    \/ health
    \/ versions
    \/ prompt
    \/ chat
    \/ stream
    \/ StreamOpen
    \/ StreamChunk
    \/ StreamResume
    \/ StreamExhausted
    \/ StreamRaise
    \/ Disconnect
    \/ Finish

Spec == Init /\ [][Next]_vars

(***************************************************************************)
(* SpecNorm: the Normalizer applied to every response value within the      *)
(* bounds.                                                                  *)
(***************************************************************************)
InitNorm ==
    /\ pc = "normalizer"
    /\ endpoint = "none"
    /\ body = NoBody
    /\ req = NoReq
    /\ sent = <<>>
    /\ outcome = "none"
    /\ resp \in Responses(MaxCands, MaxParts)
    /\ out = Pending
    /\ detail = <<>>
    /\ result = NoResult
    /\ received = <<>>
    /\ final = <<>>
    /\ events = <<>>

\* out = _out_text(resp)
Normalize ==
    /\ pc = "normalizer"
    /\ out = Pending
    /\ out' = OutText(resp)
    /\ UNCHANGED <<pc, endpoint, body, req, sent, outcome, resp, detail, result,
                   received, final, events>>

NextNorm == Normalize

SpecNorm == InitNorm /\ [][NextNorm]_vars

(***************************************************************************)
(* SpecErr: /prompt and /chat entered with a valid request, the provider    *)
(* failing with every error text within the bounds.                         *)
(***************************************************************************)
PlainPrompt == [NoBody EXCEPT !.prompt = Str(<<"p">>)]
PlainChat == [NoBody EXCEPT !.messages = List(<<UserMsg>>)]

InitErr ==
    /\ pc = "handler"
    /\ \/ endpoint = "prompt" /\ body = PlainPrompt
       \/ endpoint = "chat" /\ body = PlainChat
    /\ req = Parse(endpoint, body)
    /\ sent = <<>>
    /\ outcome = "none"
    /\ resp = NoResp
    /\ out = Pending
    /\ detail = <<>>
    /\ result = NoResult
    /\ received = <<>>
    /\ final = <<>>
    /\ events = <<>>

promptAnyError == PromptHandler(SdkResponses, Details(MaxPre, MaxPost))

chatAnyError == ChatHandler(SdkResponses, Details(MaxPre, MaxPost))

NextErr == promptAnyError \/ chatAnyError

SpecErr == InitErr /\ [][NextErr]_vars

(***************************************************************************)
(* Vocabulary of the properties.                                            *)
(***************************************************************************)
\* The non-empty texts of a chunk sequence, in order.
RECURSIVE NonEmptyTexts(_)
NonEmptyTexts(chunks) ==
    IF chunks = <<>> THEN <<>>
    ELSE (IF Head(chunks).tag = "str" /\ Head(chunks).s # <<>>
          THEN <<Head(chunks).s>> ELSE <<>>) \o NonEmptyTexts(Tail(chunks))

RECURSIVE Concat(_)
Concat(texts) == IF texts = <<>> THEN <<>> ELSE Head(texts) \o Concat(Tail(texts))

DeltaEvents(texts) == [i \in 1..Len(texts) |-> [type |-> "delta", text |-> texts[i]]]

Hel == <<"H", "e", "l">>
Lo == <<"l", "o">>
Hello == <<"H", "e", "l", "l", "o">>

\* C1: in a /stream request whose chunk sequence was exhausted without an
\* exception, the events are one delta per chunk with non-empty text, in
\* arrival order, followed by exactly one final event that carries the
\* concatenation of the deltas and is the last event.
C1_StreamOrder ==
    (endpoint = "stream" /\ outcome = "exhausted") =>
        events = DeltaEvents(NonEmptyTexts(received))
                 \o <<[type |-> "final", text |-> Concat(NonEmptyTexts(received))]>>

C1_Witness ==
    /\ endpoint = "stream"
    /\ outcome = "exhausted"
    /\ received = <<Str(Hel), Str(Lo)>>
    /\ events = <<[type |-> "delta", text |-> Hel], [type |-> "delta", text |-> Lo],
                  [type |-> "final", text |-> Hello]>>

\* C2: in a /stream request in which the provider raised, at the opening of
\* the call or after any number of chunks, the events are the deltas of the
\* chunks received before the failure, in order, followed by exactly one error
\* event, which is last; there is no final event.
C2_ErrorTerminates ==
    (endpoint = "stream" /\ outcome = "raised") =>
        /\ events = DeltaEvents(NonEmptyTexts(received))
                    \o <<[type |-> "error", text |-> detail]>>
        /\ \A i \in 1..Len(events) : events[i].type # "final"

C2_Witness ==
    /\ endpoint = "stream"
    /\ outcome = "raised"
    /\ received = <<Str(Hel), None>>
    /\ events = <<[type |-> "delta", text |-> Hel], [type |-> "error", text |-> <<"x">>]>>

OutOfRange(b) ==
    \/ b.temperature.tag = "num" /\ (b.temperature.n < 0 \/ b.temperature.n > 20)
    \/ /\ b.max_output_tokens.tag = "num"
       /\ (b.max_output_tokens.n < 1 \/ b.max_output_tokens.n > 8192)

\* Never handed to the provider, and answered with a validation error.
Rejected == sent = <<>> /\ (pc = "done" => result.kind = "validation")

\* C3: a request to /prompt, /chat or /stream whose temperature is outside
\* [0.0, 2.0] or whose max_output_tokens is outside [1, 8192] is rejected at
\* validation and the provider is never invoked for it.
C3_OutOfRangeRejected ==
    (endpoint \in {"prompt", "chat", "stream"} /\ OutOfRange(body)) => Rejected

EmptyInput ==
    \/ endpoint \in {"prompt", "stream"} /\ body.prompt = Str(<<>>)
    \/ endpoint = "chat" /\ body.messages = List(<<>>)

\* C4: a request with an empty prompt (/prompt, /stream) or an empty message
\* list (/chat) is rejected by validation before any provider call.
C4_EmptyRejected == EmptyInput => Rejected

\* The first top-level convenience field holding a non-empty string.
ClaimConvenience(r) ==
    IF r.text.tag = "str" /\ r.text.s # <<>> THEN r.text
    ELSE IF r.output_text.tag = "str" /\ r.output_text.s # <<>> THEN r.output_text
    ELSE None

RECURSIVE ClaimPartTexts(_)
ClaimPartTexts(parts) ==
    IF parts = <<>> THEN <<>>
    ELSE (IF Head(parts).text.tag = "str" /\ Head(parts).text.s # <<>>
          THEN <<Head(parts).text.s>> ELSE <<>>) \o ClaimPartTexts(Tail(parts))

\* Every non-empty text part of every candidate, in encountered order.
RECURSIVE ClaimCandTexts(_)
ClaimCandTexts(cands) ==
    IF cands = <<>> THEN <<>>
    ELSE LET c == Head(cands).content
         IN (IF c.tag = "val" /\ c.parts.tag = "list"
             THEN ClaimPartTexts(c.parts.items) ELSE <<>>)
            \o ClaimCandTexts(Tail(cands))

ClaimFallback(r) ==
    IF ClaimConvenience(r).tag = "str" THEN ClaimConvenience(r).s
    ELSE IF r.candidates.tag = "list"
         THEN Join(ClaimCandTexts(r.candidates.items), <<"\n">>)
    ELSE <<>>

\* C5: the Normalizer always returns: a non-empty top-level convenience text
\* whatever candidates holds, otherwise the newline-joined non-empty text
\* parts of all candidates in order, otherwise "".
C5_OrderedFallback ==
    out # Pending => out = [tag |-> "ret", s |-> ClaimFallback(resp)]

\* C6: the same logical response yields the same extracted string whatever
\* the representation (object or mapping) of each level of the walk.
C6_StyleEquivalence ==
    out # Pending => \A st \in Styles : OutText(Restyle(resp, st)) = out

\* The message a JSON value carries at error.message, as a set (empty when
\* the value is no object with a non-empty error.message).
ClaimMessageOf(j) ==
    IF j.ok /\ j.val.t = "obj" /\ HasKey(j.val, ErrorKey)
         /\ Lookup(j.val, ErrorKey).t = "obj"
         /\ HasKey(Lookup(j.val, ErrorKey), MessageKey)
         /\ JTruthy(Lookup(Lookup(j.val, ErrorKey), MessageKey))
    THEN {Lookup(Lookup(j.val, ErrorKey), MessageKey)}
    ELSE {}

\* The messages of the JSON objects the text ends in.
TailMessages(text) ==
    UNION {ClaimMessageOf(JsonLoads(SubSeq(text, i, Len(text)))) :
              i \in OpenBraces(text)}

EndsInObject(text) == Len(text) > 0 /\ text[Len(text)] = "}"

\* C7: a provider failure on /prompt or /chat gives an error envelope with
\* code GENERATION_ERROR and a server-error status; its message is the
\* provider's message when the error text ends in a JSON object that has one,
\* and the raw error text in every other case.
C7_Envelope ==
    (endpoint \in {"prompt", "chat"} /\ outcome = "raised") =>
        /\ result.kind = "error"
        /\ result.status = 500
        /\ result.code = "GENERATION_ERROR"
        /\ EndsInObject(detail) =>
              \A m \in TailMessages(detail) :
                  result.message = [kind |-> "provider", text |-> <<>>, val |-> m]
        /\ TailMessages(detail) = {} =>
              result.message = [kind |-> "raw", text |-> detail, val |-> JNull]

PromptOk == endpoint = "prompt" /\ pc = "done" /\ outcome = "ok"

\* C8 as stated: the /prompt response to a successful provider call is
\* {model, output} with model the override whenever one is provided.
C8_AsStated ==
    PromptOk =>
        /\ result.kind = "ok" /\ result.status = 200
        /\ result.model = (IF body.model.tag = "str" THEN body.model.s
                           ELSE <<"gemini-2.5-flash">>)
        /\ result.output = OutText(resp).s

\* C8: the /prompt response to a successful provider call is {model, output}
\* with model the override when one is provided and not empty, else the
\* configured default, and output the Normalizer's result on the response.
C8_PromptResponse ==
    PromptOk =>
        /\ result.kind = "ok" /\ result.status = 200
        /\ result.model = (IF body.model.tag = "str" /\ body.model.s # <<>>
                           THEN body.model.s ELSE <<"gemini-2.5-flash">>)
        /\ result.output = OutText(resp).s

C8_Witness ==
    /\ PromptOk
    /\ body.model = Str(<<"m">>)
    /\ result.model = <<"m">>
    /\ result.status = 200
    /\ result.output = <<>>

\* C9: a /prompt, /chat or /stream request invokes the provider at most once,
\* a failed call included, and /health and /versions never invoke it.
C9_AtMostOneCall ==
    /\ Len(sent) <= 1
    /\ endpoint \in {"health", "versions"} => sent = <<>>

C9_Witness ==
    /\ endpoint = "chat"
    /\ pc = "done"
    /\ outcome = "raised"
    /\ result.kind = "error"
    /\ Len(sent) = 1

Supplied(v, default) == IF v.tag = "num" THEN v.n ELSE default

\* C10: the configuration of every provider call carries the request's own
\* temperature and max_output_tokens when the request supplies them, 0.0
\* included, and 0.3 and 1024 only when the field is absent.
C10_ConfigCarriesRequest ==
    \A i \in 1..Len(sent) :
        /\ sent[i].config.temperature = Supplied(body.temperature, 3)
        /\ sent[i].config.max_output_tokens = Supplied(body.max_output_tokens, 1024)

====
